---- MODULE Spec2Model ----
(***************************************************************************)
(* RNNDecoderBase (txtgen/modules/decoders/rnn_decoder_base.py): the base  *)
(* class of the RNN decoders.  One decoder instance is modelled: its       *)
(* construction, the decode invocation (_build), the batch_size property,  *)
(* the three abstract callbacks and the static default_hparams.            *)
(*                                                                         *)
(* Collaborators that are not part of the sources (the module base, the    *)
(* cell factory, tf.cond, the dynamic-decode driver, the parameter         *)
(* tracker) are modelled by their contracts.  Two calls of the sources do  *)
(* not meet the contract of the callee: line 32 leaves out the instance,   *)
(* lines 83-84 pass values where tf.cond takes callables.  Each is a       *)
(* choice between the call raising and the call doing what the docstrings  *)
(* describe, so that the lines after it are examined as well.              *)
(***************************************************************************)
EXTENDS Integers, Sequences, FiniteSets

VARIABLES pc, _helper, _initial_state, _cell, _hparams, overrides,
          builds, returns, args, drv, trace, result, lastOp,
          registered, factoryCalls, defaultsReturned

vars == <<pc, _helper, _initial_state, _cell, _hparams, overrides,
          builds, returns, args, drv, trace, result, lastOp,
          registered, factoryCalls, defaultsReturned>>

\* The fields of the decoder instance and the tracker it registers with.
decoderState == <<_helper, _initial_state, _cell, _hparams, registered>>

\* ------------------------------------------------------------ bounds
\* Decode invocations per run.
MaxBuilds == 2
\* Longest sequence of the batch: every sequence has finished by then.
MaxSteps == 3
\* Largest explicitly configured max_decoding_length.
MaxLen == 2
\* Calls of default_hparams per run.
MaxDefaultCalls == 2

\* ------------------------------------------------------------ values
None == [tag |-> "None"]

IntVal(n) == [tag |-> "int", value |-> n]

\* The callbacks of the dynamic-decode contract.
Methods == {"initialize", "step", "finalize"}

\* Cells constructed by the caller.
Cells == {[tag |-> "cell", name |-> "cellA"], [tag |-> "cell", name |-> "cellB"]}

\* rnn_cell hyperparameter mappings: the collaborator's default and the one
\* of the example configuration.
default_rnn_cell_hparams == "default_rnn_cell_hparams"

config_model_decoder_rnn_cell == "kwargs.num_units=1000"

RnnCellHparams == {default_rnn_cell_hparams, config_model_decoder_rnn_cell}

\* Helpers of the caller, told apart by their batch size.
Helpers == {[tag |-> "Helper", batch_size |-> b] : b \in {1, 2}}

InitialStates == {[tag |-> "state", name |-> "zero"], [tag |-> "state", name |-> "encoded"]}

\* Errors of the driver's own.
DriverErrors == {"InvalidArgumentError", "ResourceExhaustedError"}

\* ------------------------------------------------------------ hyperparameters
default_hparams_32 ==
    [rnn_cell |-> default_rnn_cell_hparams, max_decoding_length |-> 32]

default_hparams ==
    [rnn_cell |-> default_rnn_cell_hparams, max_decoding_length |-> 64]

\* What a caller may pass as hparams: nothing, only rnn_cell (as the example
\* configuration does), or both options.
HparamsInputs ==
    {None}
    \cup {[rnn_cell |-> r] : r \in RnnCellHparams}
    \cup {[rnn_cell |-> config_model_decoder_rnn_cell, max_decoding_length |-> n] :
              n \in 1..MaxLen}

\* The module base's hyperparameters: the explicit settings, with the
\* defaults for the options the caller left out.
HParams(hparams) ==
    [k \in DOMAIN default_hparams |->
        IF k \in DOMAIN hparams THEN hparams[k] ELSE default_hparams[k]]

\* The cell factory.
get_rnn_cell(rnn_cell) == [tag |-> "cell", name |-> "factory", hparams |-> rnn_cell]

\* Line 32: ModuleBase.__init__(name, hparams) is called through the class,
\* with `name` where the instance belongs.  The call raises; the outcome in
\* which the module base holds the hyperparameters, as the class docstring
\* describes, is kept beside it.
ModuleBaseInitOutcomes == {"raises", "initialised"}

\* Lines 83-84: tf.cond(pred, None, max_decoding_length) is handed values
\* where it takes callables.  The call raises; the outcome in which it yields
\* the value of the branch the flag selects is kept beside it.
CondOutcomes == {"raises", "selects"}

NoDriver ==
    [phase |-> "none", maximum_iterations |-> None, steps |-> 0,
     finished |-> FALSE, error |-> "", results |-> None]

Count(s, e) == Cardinality({i \in 1..Len(s) : s[i] = e})

Indices(s, e) == {i \in 1..Len(s) : s[i] = e}

\* ------------------------------------------------------------ Init
Init ==
    /\ pc = "none"
    /\ _helper = None
    /\ _initial_state = None
    /\ _cell = None
    /\ _hparams = None
    /\ overrides = {}
    /\ builds = 0
    /\ returns = 0
    /\ args = None
    /\ drv = NoDriver
    /\ trace = <<>>
    /\ result = [outcome |-> "none", error |-> "", value |-> None]
    /\ lastOp = [op |-> "none", outcome |-> "none"]
    /\ registered = <<>>
    /\ factoryCalls = <<>>
    /\ defaultsReturned = <<>>

\* ------------------------------------------------------------ __init__
\* Lines 35-38: the explicit cell as it is, or one from the factory.
ChooseCell(cell, hp) ==
    IF cell # None
    THEN /\ _cell' = cell
         /\ UNCHANGED factoryCalls
    ELSE /\ _cell' = get_rnn_cell(hp.rnn_cell)
         /\ factoryCalls' = Append(factoryCalls, hp.rnn_cell)

\* RNNDecoderBase(cell, hparams) on a class that overrides the callbacks `ov`.
Construct(cell, hparams, ov, mb) ==
    /\ pc = "none"
    /\ \/ /\ mb = "raises"
          /\ lastOp' = [op |-> "__init__", outcome |-> "raised",
                        error |-> "TypeError", cell |-> cell, hparams |-> hparams]
          /\ UNCHANGED <<pc, _helper, _initial_state, _cell, _hparams, overrides,
                         factoryCalls>>
       \/ /\ mb = "initialised"
          /\ _hparams' = HParams(hparams)
          /\ _helper' = None
          /\ _initial_state' = None
          /\ ChooseCell(cell, HParams(hparams))
          /\ overrides' = ov
          /\ pc' = "idle"
          /\ lastOp' = [op |-> "__init__", outcome |-> "returned",
                        error |-> "", cell |-> cell, hparams |-> hparams]
    /\ UNCHANGED <<builds, returns, args, drv, trace, result, registered, defaultsReturned>>

\* ------------------------------------------------------------ default_hparams
\* The static default_hparams(), called by anyone between the decoder's own
\* operations; the mappings it returned are kept in the order returned.
CallDefaultHparams ==
    /\ pc \in {"none", "idle"}
    /\ Len(defaultsReturned) < MaxDefaultCalls
    /\ lastOp' = [op |-> "default_hparams", outcome |-> "returned",
                  value |-> default_hparams]
    /\ defaultsReturned' = Append(defaultsReturned, default_hparams)
    /\ UNCHANGED <<pc, _helper, _initial_state, _cell, _hparams, overrides,
                   builds, returns, args, drv, trace, result, registered, factoryCalls>>

\* ------------------------------------------------------------ _build
NoResult == [outcome |-> "none", error |-> "", value |-> None]

\* Lines 81-82 keeping the initial state of the invocation before.
StoreInvocationArgs_KeepState(helper, initial_state) ==
    /\ _helper' = helper
    /\ UNCHANGED _initial_state

\* Lines 81-82.
StoreInvocationArgs(helper, initial_state) ==
    /\ _helper' = helper
    /\ _initial_state' = initial_state

\* Lines 83-87 passing no cap in either mode.
max_decoding_length_NoCap(is_train, hp) == None

\* Lines 83-87: what the flag selects as the driver's maximum_iterations, no
\* cap when training and the configured max_decoding_length otherwise.
max_decoding_length(is_train, hp) ==
    IF is_train THEN None ELSE IntVal(hp.max_decoding_length)

\* _build(helper, initial_state) up to the call of the driver, under the mode
\* flag context.is_train().
Build(helper, initial_state, is_train, cond) ==
    /\ pc = "idle"
    /\ builds < MaxBuilds
    /\ StoreInvocationArgs(helper, initial_state)
    /\ args' = [helper |-> helper, initial_state |-> initial_state,
                is_train |-> is_train]
    /\ builds' = builds + 1
    /\ \/ /\ cond = "raises"
          /\ pc' = "idle"
          /\ drv' = NoDriver
          /\ trace' = <<"_build", "raise">>
          /\ result' = [outcome |-> "raised", error |-> "TypeError", value |-> None]
          /\ lastOp' = [op |-> "_build", outcome |-> "raised"]
       \/ /\ cond = "selects"
          /\ pc' = "driver"
          /\ drv' = [NoDriver EXCEPT
                        !.phase = "start",
                        !.maximum_iterations = max_decoding_length(is_train, _hparams)]
          /\ trace' = <<"_build", "dynamic_decode">>
          /\ result' = NoResult
          /\ lastOp' = [op |-> "dynamic_decode", outcome |-> "called"]
    /\ UNCHANGED <<_cell, _hparams, overrides, returns, registered, factoryCalls,
                   defaultsReturned>>

\* ------------------------------------------------------------ callbacks
\* Lines 101-137 with step returning instead of raising.
BaseMethod_StepReturns(m) ==
    IF m = "step" THEN "returned" ELSE "NotImplementedError"

\* Lines 101-137: initialize, step and finalize of the base class.
BaseMethod(m) == "NotImplementedError"

\* A call of callback m on the instance: the override of the subclass where
\* there is one, the base class's method otherwise.
CallbackOutcome(m) == IF m \in overrides THEN "returned" ELSE BaseMethod(m)

CallRecord(m, by) ==
    LET o == CallbackOutcome(m) IN
    [op |-> m, by |-> by,
     outcome |-> IF o = "returned" THEN "returned" ELSE "raised",
     error |-> IF o = "returned" THEN "" ELSE o,
     helper |-> _helper, initial_state |-> _initial_state]

\* A caller outside a decode invocation calls a callback that no subclass
\* overrides.
CallDirect(m) ==
    /\ pc = "idle"
    /\ m \notin overrides
    /\ lastOp' = CallRecord(m, "caller")
    /\ UNCHANGED <<pc, _helper, _initial_state, _cell, _hparams, overrides,
                   builds, returns, args, drv, trace, result, registered,
                   factoryCalls, defaultsReturned>>

\* ------------------------------------------------------------ dynamic_decode
BoundReached ==
    /\ drv.maximum_iterations # None
    /\ drv.steps >= drv.maximum_iterations.value

DriverCalls(m) ==
    /\ lastOp' = CallRecord(m, "driver")
    /\ trace' = Append(trace, m)
    /\ UNCHANGED <<pc, _helper, _initial_state, _cell, _hparams, overrides,
                   builds, returns, args, result, registered, factoryCalls,
                   defaultsReturned>>

DriverInitialize ==
    /\ pc = "driver"
    /\ drv.phase = "start"
    /\ DriverCalls("initialize")
    /\ IF CallbackOutcome("initialize") = "returned"
       THEN \E fin \in BOOLEAN :
                drv' = [drv EXCEPT !.phase = "stepping", !.finished = fin]
       ELSE drv' = [drv EXCEPT !.phase = "failed",
                               !.error = CallbackOutcome("initialize")]

DriverStep ==
    /\ pc = "driver"
    /\ drv.phase = "stepping"
    /\ ~drv.finished
    /\ ~BoundReached
    /\ drv.steps < MaxSteps
    /\ DriverCalls("step")
    /\ IF CallbackOutcome("step") = "returned"
       THEN \E fin \in BOOLEAN :
                drv' = [drv EXCEPT !.steps = drv.steps + 1,
                                   !.finished = fin \/ drv.steps + 1 >= MaxSteps]
       ELSE drv' = [drv EXCEPT !.phase = "failed",
                               !.error = CallbackOutcome("step")]

DriverFinalize ==
    /\ pc = "driver"
    /\ drv.phase = "stepping"
    /\ drv.finished \/ BoundReached
    /\ DriverCalls("finalize")
    /\ IF CallbackOutcome("finalize") = "returned"
       THEN \E fs \in InitialStates :
                drv' = [drv EXCEPT
                           !.phase = "returned",
                           !.results =
                               [outputs |-> [tag |-> "outputs", steps |-> drv.steps],
                                final_state |-> fs,
                                sequence_lengths |-> [tag |-> "lengths", steps |-> drv.steps]]]
       ELSE drv' = [drv EXCEPT !.phase = "failed",
                               !.error = CallbackOutcome("finalize")]

\* The driver fails on its own.
DriverFail(e) ==
    /\ pc = "driver"
    /\ drv.phase \in {"start", "stepping"}
    /\ drv' = [drv EXCEPT !.phase = "failed", !.error = e]
    /\ trace' = Append(trace, "driver_raised")
    /\ lastOp' = [op |-> "dynamic_decode", outcome |-> "raised"]
    /\ UNCHANGED <<pc, _helper, _initial_state, _cell, _hparams, overrides,
                   builds, returns, args, result, registered, factoryCalls,
                   defaultsReturned>>

\* Lines 86-87 calling the driver again after it failed.
BuildAbort_Retry ==
    /\ pc = "driver"
    /\ drv.phase = "failed"
    /\ drv' = [drv EXCEPT !.phase = "start", !.error = "", !.steps = 0,
                          !.finished = FALSE]
    /\ trace' = Append(trace, "dynamic_decode")
    /\ lastOp' = [op |-> "dynamic_decode", outcome |-> "called"]
    /\ UNCHANGED <<pc, _helper, _initial_state, _cell, _hparams, overrides,
                   builds, returns, args, result, registered, factoryCalls,
                   defaultsReturned>>

\* Lines 86-87: nothing catches what the driver raises, it leaves _build.
BuildAbort ==
    /\ pc = "driver"
    /\ drv.phase = "failed"
    /\ pc' = "idle"
    /\ result' = [outcome |-> "raised", error |-> drv.error, value |-> None]
    /\ trace' = Append(trace, "raise")
    /\ lastOp' = [op |-> "_build", outcome |-> "raised"]
    /\ UNCHANGED <<_helper, _initial_state, _cell, _hparams, overrides,
                   builds, returns, args, drv, registered, factoryCalls,
                   defaultsReturned>>

\* The hooks of the module base that register trainable parameters.
RegisterSelf == "_add_internal_trainable_variables"

RegisterCell == "_add_trainable_variable"

\* Lines 89-92 registering the cell's parameters before the decoder's own.
Registrations_CellFirst(cell) ==
    <<[hook |-> RegisterCell, of |-> cell],
      [hook |-> RegisterSelf, of |-> None]>>

\* Lines 89-92: the registrations, in the order made.
Registrations(cell) ==
    <<[hook |-> RegisterSelf, of |-> None],
      [hook |-> RegisterCell, of |-> cell]>>

\* Line 94 with the first two results swapped.
BuildReturnValue_Swapped(res) ==
    <<res.final_state, res.outputs, res.sequence_lengths>>

\* Lines 86 and 94: the tuple _build returns.
BuildReturnValue(res) ==
    <<res.outputs, res.final_state, res.sequence_lengths>>

\* Lines 86-94 from the driver's return on.
BuildFinish ==
    /\ pc = "driver"
    /\ drv.phase = "returned"
    /\ registered' = registered \o Registrations(_cell)
    /\ trace' = trace \o <<"driver_returned">>
                      \o [i \in 1..Len(Registrations(_cell)) |->
                             Registrations(_cell)[i].hook]
                      \o <<"return">>
    /\ result' = [outcome |-> "returned", error |-> "",
                  value |-> BuildReturnValue(drv.results)]
    /\ returns' = returns + 1
    /\ pc' = "idle"
    /\ lastOp' = [op |-> "_build", outcome |-> "returned"]
    /\ UNCHANGED <<_helper, _initial_state, _cell, _hparams, overrides,
                   builds, args, drv, factoryCalls, defaultsReturned>>

\* ------------------------------------------------------------ batch_size
\* Lines 97-99 answering 0 while no helper is set.
batch_size_Zero(helper) ==
    IF helper = None
    THEN [op |-> "batch_size", outcome |-> "returned", error |-> "", value |-> 0]
    ELSE [op |-> "batch_size", outcome |-> "returned", error |-> "",
          value |-> helper.batch_size]

\* Lines 97-99: the attribute of the helper; None has no such attribute.
batch_size(helper) ==
    IF helper = None
    THEN [op |-> "batch_size", outcome |-> "raised", error |-> "AttributeError",
          value |-> 0]
    ELSE [op |-> "batch_size", outcome |-> "returned", error |-> "",
          value |-> helper.batch_size]

ReadBatchSize ==
    /\ pc \in {"idle", "driver"}
    /\ lastOp' = batch_size(_helper)
    /\ UNCHANGED <<pc, _helper, _initial_state, _cell, _hparams, overrides,
                   builds, returns, args, drv, trace, result, registered,
                   factoryCalls, defaultsReturned>>

Next ==
    \/ \E cell \in Cells \cup {None}, hparams \in HparamsInputs,
          ov \in SUBSET Methods, mb \in ModuleBaseInitOutcomes :
            Construct(cell, hparams, ov, mb)
    \/ CallDefaultHparams
    \/ \E helper \in Helpers, initial_state \in InitialStates,
          is_train \in BOOLEAN, cond \in CondOutcomes :
            Build(helper, initial_state, is_train, cond)
    \/ \E m \in Methods : CallDirect(m)
    \/ DriverInitialize
    \/ DriverStep
    \/ DriverFinalize
    \/ \E e \in DriverErrors : DriverFail(e)
    \/ BuildAbort
    \/ BuildFinish
    \/ ReadBatchSize

Spec == Init /\ [][Next]_vars

\* ------------------------------------------------------------ claims
Concrete == overrides = Methods

\* C1: constructing with an explicit cell stores that cell and never calls the
\* cell factory; constructing without one completes and calls the factory
\* exactly once with the configured rnn_cell hyperparameters, storing its
\* result as the cell.
C1_ConstructionStoresOrBuildsCell ==
    lastOp.op = "__init__" =>
        /\ lastOp.cell # None =>
              /\ _cell = lastOp.cell
              /\ factoryCalls = <<>>
        /\ lastOp.cell = None =>
              /\ lastOp.outcome = "returned"
              /\ factoryCalls = <<HParams(lastOp.hparams).rnn_cell>>
              /\ _cell = get_rnn_cell(HParams(lastOp.hparams).rnn_cell)

\* C2: every decode invocation hands the driver a maximum-iteration bound set
\* by the mode flag: max_decoding_length in inference mode, none in training
\* mode.
C2_BoundFollowsModeFlag ==
    builds > 0 =>
        /\ Count(trace, "dynamic_decode") = 1
        /\ drv.maximum_iterations =
              IF args.is_train THEN None ELSE IntVal(_hparams.max_decoding_length)

\* What the most recent call of a callback without an override did.
C3_CallRaises ==
    (lastOp.op \in Methods /\ lastOp.op \notin overrides) =>
        /\ lastOp.outcome = "raised"
        /\ lastOp.error = "NotImplementedError"

\* C3: a callback that no subclass overrides fails with NotImplementedError,
\* whichever of the three it is and whether it is called before, during or
\* after a decode invocation, and the failed call leaves the decoder's state
\* as it was.
C3_UnoverriddenCallbacksRaise ==
    /\ []C3_CallRaises
    /\ [][(lastOp' # lastOp /\ lastOp'.op \in Methods /\ lastOp'.outcome = "raised")
             => UNCHANGED decoderState]_vars

C3_Witness ==
    /\ builds = 2
    /\ pc = "driver"
    /\ lastOp.op = "step"
    /\ lastOp.by = "driver"
    /\ lastOp.error = "NotImplementedError"

\* The mappings default_hparams has returned so far.
C4_DefaultsReturned ==
    /\ \A i, j \in 1..Len(defaultsReturned) : defaultsReturned[i] = defaultsReturned[j]
    /\ \A i \in 1..Len(defaultsReturned) :
          /\ DOMAIN defaultsReturned[i] = {"rnn_cell", "max_decoding_length"}
          /\ defaultsReturned[i].max_decoding_length = 64
          /\ defaultsReturned[i].rnn_cell = default_rnn_cell_hparams
    /\ lastOp.op = "default_hparams" =>
          /\ defaultsReturned # <<>>
          /\ lastOp.value = defaultsReturned[Len(defaultsReturned)]

\* C4: every call of default_hparams returns the same mapping, with exactly
\* the keys rnn_cell and max_decoding_length, max_decoding_length 64 and
\* rnn_cell the collaborator's default; a call changes no decoder state.
C4_DefaultHparams ==
    /\ []C4_DefaultsReturned
    /\ [][defaultsReturned' # defaultsReturned
             => UNCHANGED <<decoderState, overrides, factoryCalls>>]_vars

C4_Witness ==
    /\ Len(defaultsReturned) = 2
    /\ pc = "idle"
    /\ returns > 0

\* C5: when the driver fails, the decode invocation ends raising the driver's
\* error itself; the driver was called once in that invocation, nothing was
\* registered and no outputs were returned.
C5_DriverFailureAborts ==
    drv.phase = "failed" =>
        /\ Count(trace, "dynamic_decode") = 1
        /\ Count(trace, RegisterSelf) = 0
        /\ Count(trace, RegisterCell) = 0
        /\ Count(trace, "return") = 0
        /\ Len(registered) = 2 * returns
        /\ pc = "driver" => result = NoResult
        /\ pc = "idle" =>
              /\ result.outcome = "raised"
              /\ result.error = drv.error
              /\ result.value = None

C5_Witness ==
    /\ pc = "idle"
    /\ drv.phase = "failed"
    /\ drv.error \in DriverErrors
    /\ result.error = drv.error
    /\ Count(trace, "step") >= 1

\* C6 as stated: the helper and initial state are set before the driver
\* starts, the callbacks see those of their own invocation, and once the
\* invocation is over the instance holds them no longer.
C6_NotHeldAfterInvocation ==
    /\ pc = "driver" =>
          /\ _helper = args.helper
          /\ _initial_state = args.initial_state
    /\ (lastOp.op \in Methods /\ lastOp.by = "driver") =>
          /\ lastOp.helper = args.helper
          /\ lastOp.initial_state = args.initial_state
    /\ (pc = "idle" /\ builds > 0) =>
          /\ _helper # args.helper
          /\ _initial_state # args.initial_state

\* The instance holds the arguments of the most recent decode invocation.
C6_HeldState ==
    /\ builds = 0 =>
          /\ _helper = None
          /\ _initial_state = None
    /\ builds > 0 =>
          /\ _helper = args.helper
          /\ _initial_state = args.initial_state
    /\ (lastOp.op \in Methods /\ lastOp.by = "driver") =>
          /\ lastOp.helper = args.helper
          /\ lastOp.initial_state = args.initial_state

\* C6 as amended: the helper and initial state are set once per decode
\* invocation, at its start and before the driver; the instance holds them
\* until the next invocation replaces them, also after the invocation is
\* over, and the callbacks see those of their own invocation.
C6_HeldUntilNextInvocation ==
    /\ []C6_HeldState
    /\ [][(_helper' # _helper \/ _initial_state' # _initial_state)
             => (pc = "idle" /\ builds' = builds + 1
                 /\ trace' \in {<<"_build", "raise">>, <<"_build", "dynamic_decode">>})]_vars

C6_Witness ==
    /\ pc = "idle"
    /\ builds = 2
    /\ returns = 2
    /\ _helper = args.helper
    /\ _initial_state = args.initial_state
    /\ _helper # None

C8_ReturnsDriverResults ==
    result.outcome = "returned" =>
        /\ Len(result.value) = 3
        /\ result.value[1] = drv.results.outputs
        /\ result.value[2] = drv.results.final_state
        /\ result.value[3] = drv.results.sequence_lengths

C8_Witness ==
    /\ result.outcome = "returned"
    /\ result.value[1].steps >= 1
    /\ result.value[3].steps >= 1
    /\ result.value[2] \in InitialStates

\* C9: the registrations of a decode invocation are made after the driver has
\* returned and before the invocation returns, the decoder's own parameters
\* first and the cell's second, each once in an invocation that returns and
\* none in one that does not; none is made at construction or while the
\* driver runs.
C9_RegistrationOrder ==
    LET rs == Indices(trace, RegisterSelf)
        rc == Indices(trace, RegisterCell)
        dr == Indices(trace, "driver_returned")
        rt == Indices(trace, "return")
    IN  /\ Cardinality(rs) <= 1
        /\ Cardinality(rc) <= 1
        /\ \A r \in rs \cup rc : (\E d \in dr : d < r) /\ (\A t \in rt : r < t)
        /\ \A a \in rs, b \in rc : a < b
        /\ result.outcome = "returned" =>
              /\ Cardinality(rs) = 1
              /\ Cardinality(rc) = 1
              /\ Cardinality(rt) = 1
        /\ result.outcome # "returned" => rs \cup rc = {}
        /\ Len(registered) = 2 * returns
        /\ \A k \in 1..returns :
              /\ registered[2 * k - 1] = [hook |-> RegisterSelf, of |-> None]
              /\ registered[2 * k] = [hook |-> RegisterCell, of |-> _cell]

C9_Witness ==
    /\ result.outcome = "returned"
    /\ _cell \in Cells
    /\ returns = 2
    /\ Len(registered) = 4

\* What the most recent read of batch_size answered.
C10_Answer ==
    lastOp.op = "batch_size" =>
        IF builds = 0
        THEN /\ lastOp.outcome = "raised"
             /\ lastOp.error = "AttributeError"
        ELSE /\ lastOp.outcome = "returned"
             /\ lastOp.value = args.helper.batch_size

\* C10: batch_size answers the batch size of the helper of the most recent
\* decode invocation, fails while no invocation has started and the helper is
\* unset, and changes none of helper, initial state, cell and hyperparameters.
C10_BatchSize ==
    /\ []C10_Answer
    /\ [][(lastOp' # lastOp /\ lastOp'.op = "batch_size")
             => UNCHANGED <<_helper, _initial_state, _cell, _hparams>>]_vars

C10_Witness ==
    /\ lastOp.op = "batch_size"
    /\ lastOp.outcome = "returned"
    /\ builds = 2
    /\ pc = "driver"
====
